---- MODULE Spec2Model ----
(***************************************************************************)
(* Model of nwastdlib: the do-notation driver (do.py), the dict            *)
(* combinators (dict.py) and the two OAuth helpers (oauth/).               *)
(*                                                                         *)
(* Maybe and Either (nwastdlib/maybe.py, nwastdlib/either.py) are imported *)
(* by the sources but are not part of them; their operations (unit, of,    *)
(* flatmap, maybe, sequence, map) are modelled from the specification.     *)
(***************************************************************************)
EXTENDS Integers, Sequences, FiniteSets, TLC

VARIABLES
    \* ---- do.py: one decorated function do(M)(f) and the run in progress
    it,         \* what f(*args, **kwargs) returned: [prog, pc, received]
    val,        \* the argument of the pending send(val)
    yielded,    \* the container the last it.send returned
    phase,      \* "idle" | "send" | "flatmap" | "return" | "done"
    depth,      \* number of nested send frames on the stack
    result,     \* the value travelling up the stack / returned by run
    kind,       \* how the run ended: "none" | "short" | "mreturn" | "complete"
                \* | "raise"
    executed,   \* history: the steps of the program executed by this call
    prevKind,   \* history: how the previous call of the callable ended
    \* ---- dict.py: getByKeys(ks, d)
    gkKs,       \* the key set ks, as the sequence its iteration yields
    gkD,        \* the dict d
    gkRes,      \* the value returned
    gkDone,     \* has getByKeys returned
    \* ---- dict.py: append(d1, d2)
    apD1,
    apD2,
    apRes,      \* the dict returned
    apDone,     \* has append returned
    \* ---- dict.py: unflatten(d, sep)
    ufD,        \* d.items() in iteration order: a sequence of [k, v]
    ufSep,      \* sep
    ufIdx,      \* number of items reduce has consumed
    ufAcc,      \* the accumulator of reduce
    \* ---- oauth/oauth_client.py: one browser session
    session,    \* flask.session: redirect_state, user, auth_tokens
    cbs,        \* the callback requests being handled: [pc, state, stored]
    req,        \* history: the request that took the last step
    validated,  \* history: callbacks that passed the state check since
                \* force_authorize last stored a redirect state
    \* ---- oauth/oauth_credentials.py
    config,     \* app.config[AUTH_RESOURCE_SERVER]
    calls,      \* the calls waiting for their token response: [pc, url]
    call,       \* history: the call that took the last step
    outcome,    \* how that step ended: "waiting", "returned" or the
                \* exception raised
    lastSent    \* history: the token request sent last and its status

doVars == <<it, val, yielded, phase, depth, result, kind, executed, prevKind>>
gkVars == <<gkKs, gkD, gkRes, gkDone>>
apVars == <<apD1, apD2, apRes, apDone>>
ufVars == <<ufD, ufSep, ufIdx, ufAcc>>

oaVars == <<session, cbs, req, validated>>
crVars == <<config, calls, call, outcome, lastSent>>

vars == <<doVars, gkVars, apVars, ufVars, oaVars, crVars>>

----------------------------------------------------------------------------
(* Values *)

NoneVal == [tag |-> "None"]
Raw(x) == [tag |-> "Raw", v |-> x]
Raised(e) == [tag |-> "Raise", exc |-> e]

(* Maybe / Either, as the specification describes them *)
Some(x) == [tag |-> "Some", v |-> x]
Nothing == [tag |-> "Nothing"]
Left(x) == [tag |-> "Left", v |-> x]
Right(x) == [tag |-> "Right", v |-> x]

unit(M, x) == IF M = "Maybe" THEN Some(x) ELSE Right(x)

IsShort(m) == m.tag \in {"Nothing", "Left"}

\* m.flatmap(f) calls f exactly when m is Some / Right
flatmapCalls(m) == ~IsShort(m)

(* Each part of the library is exercised on its own; the state of the
   others then rests at these values. *)

DoIdle ==
    /\ it = [prog |-> [M |-> "Maybe", steps |-> <<>>, ret |-> "none", dead |-> TRUE], pc |-> 0, received |-> <<>>]
    /\ val = NoneVal
    /\ yielded = NoneVal
    /\ phase = "idle"
    /\ depth = 0
    /\ result = NoneVal
    /\ kind = "none"
    /\ executed = <<>>
    /\ prevKind = "none"

GkIdle ==
    /\ gkKs = <<>>
    /\ gkD = <<>>
    /\ gkRes = NoneVal
    /\ gkDone = FALSE

ApIdle ==
    /\ apD1 = <<>>
    /\ apD2 = <<>>
    /\ apRes = <<>>
    /\ apDone = FALSE

UfIdle ==
    /\ ufD = <<>>
    /\ ufSep = "."
    /\ ufIdx = 0
    /\ ufAcc = <<>>

Absent == [has |-> FALSE]
Present(x) == [has |-> TRUE, v |-> x]

\* requests of one session handled at the same time
MaxInFlight == 2

\* calls of the credentials functions running at the same time
MaxCalls == 2

IdleRequest == [pc |-> "idle", state |-> Absent, stored |-> Absent]

OaIdle ==
    /\ session = [redirect_state |-> Absent, user |-> Absent, auth_tokens |-> Absent]
    /\ cbs = [i \in 1..MaxInFlight |-> IdleRequest]
    /\ req = [handler |-> "none"]
    /\ validated = 0

IdleCall == [pc |-> "idle", url |-> "none"]

CrIdle ==
    /\ config = Absent
    /\ calls = [i \in 1..MaxCalls |-> IdleCall]
    /\ call = [op |-> "none", step |-> "none"]
    /\ outcome = "returned"
    /\ lastSent = [slot |-> 0, status |-> "none"]

----------------------------------------------------------------------------
(* do.py *)

MaxSteps == 3

Payloads == {1, 2}

Containers(M) ==
    IF M = "Maybe" THEN {Some(x) : x \in Payloads} \cup {Nothing}
    ELSE {Right(1)} \cup {Left(x) : x \in Payloads}

\* One statement of the decorated function f: a suspension point
\* `x = yield m` or a call mreturn(v); v is built from the values received
\* so far, as f"{a}, {b}!" is in the module's doctest.
StepSet(M) == {[op |-> "yield", m |-> c] : c \in Containers(M)} \cup {[op |-> "mreturn"]}

\* How f ends: falls off the end, `return <value>`, or
\* `return M.unit(<value>)`.
RetSet == {"none", "raw", "unit"}

HasYieldStep(steps) == \E i \in DOMAIN steps : steps[i].op = "yield"

\* The functions do(M) is applied to. `dead` tells whether the body holds a
\* yield that no run reaches (`if False: yield`); it only matters for a body
\* whose statements hold no yield.
Programs ==
    UNION {{p \in [M : {M}, steps : UNION {[1..n -> StepSet(M)] : n \in 0..MaxSteps},
                   ret : RetSet, dead : BOOLEAN] : HasYieldStep(p.steps) => ~p.dead}
             : M \in {"Maybe", "Either"}}

\* f is a generator function exactly when its body holds a yield, reached
\* or not; otherwise f(*args, **kwargs) runs the body
IsGenerator(p) == p.dead \/ HasYieldStep(p.steps)

RECURSIVE Sum(_)
Sum(s) == IF s = <<>> THEN 0 ELSE s[1] + Sum(Tail(s))

\* the value a generator builds from what its yields evaluated to
Built(received) == Sum(received)

RetValue(p, received) ==
    CASE p.ret = "none" -> NoneVal
      [] p.ret = "raw" -> Raw(Built(received))
      [] p.ret = "unit" -> unit(p.M, Built(received))

FreshGenerator(p, old) == [prog |-> p, pc |-> 0, received |-> <<>>]

\* a generator made once, when f is decorated, and shared by the calls
SharedGenerator(p, old) == IF old.prog = p THEN old ELSE FreshGenerator(p, old)

\* it = f(*args, **kwargs), f a generator function
NewGenerator(p, old) == FreshGenerator(p, old)

\* it = f(*args, **kwargs), f a plain function: the body has run, up to its
\* first statement that raises or to its end
PlainCall(p) == [prog |-> p, pc |-> 1, received |-> <<>>]

SentNone(v) == NoneVal

\* the argument of it.send(val)
Sent(v) == v

\* except ReturnMonadic as e: return M.unit(e.value)
OnReturnMonadic(M, v) == unit(M, v)

StopIterationNone(v) == NoneVal

\* except StopIteration as e: return e.value
OnStopIteration(v) == v

BindAlways(m) == TRUE

\* it.send(val).flatmap(send): is send called again for the yielded m
Bind(m) == flatmapCalls(m)

\* run(*args, **kwargs): a call of the decorated function
\* f(*args, **kwargs) is evaluated outside the try of send: a body without
\* yield runs there, and a ReturnMonadic it raises leaves run
run(p) ==
    /\ phase \in {"idle", "done"}
    /\ val' = NoneVal
    /\ yielded' = NoneVal
    /\ prevKind' = kind
    /\ IF IsGenerator(p)
       THEN /\ it' = NewGenerator(p, it)
            /\ phase' = "send"
            /\ depth' = 1
            /\ result' = NoneVal
            /\ kind' = "none"
            /\ executed' = <<>>
       ELSE IF Len(p.steps) >= 1
       THEN /\ it' = PlainCall(p)
            /\ phase' = "done"
            /\ depth' = 0
            /\ result' = Raised("ReturnMonadic")
            /\ kind' = "raise"
            /\ executed' = <<1>>
       ELSE /\ it' = PlainCall(p)
            /\ phase' = "send"
            /\ depth' = 1
            /\ result' = NoneVal
            /\ kind' = "none"
            /\ executed' = <<1>>

\* send(val): it.send(val) resumes the generator, which runs to its next
\* yield, to a raise of ReturnMonadic or to its end (StopIteration). When f
\* is a plain function `it` is the value f returned, it has no send, and the
\* AttributeError is none of the exceptions send catches.
send ==
    /\ phase = "send"
    /\ IF ~IsGenerator(it.prog)
       THEN /\ result' = Raised("AttributeError")
            /\ kind' = "raise"
            /\ phase' = "return"
            /\ UNCHANGED <<it, executed, yielded>>
       ELSE
       LET p == it.prog
           sent == Sent(val)
           rec == IF it.pc = 0 THEN it.received
                  ELSE Append(it.received, IF sent.tag = "Raw" THEN sent.v ELSE 0)
           i == it.pc + 1
       IN /\ it' = [it EXCEPT !.pc = i, !.received = rec]
          /\ executed' = Append(executed, i)
          /\ IF i > Len(p.steps)
             THEN /\ result' = OnStopIteration(RetValue(p, rec))
                  /\ kind' = "complete"
                  /\ phase' = "return"
                  /\ UNCHANGED yielded
             ELSE IF p.steps[i].op = "mreturn"
             THEN /\ result' = OnReturnMonadic(p.M, Built(rec))
                  /\ kind' = "mreturn"
                  /\ phase' = "return"
                  /\ UNCHANGED yielded
             ELSE /\ yielded' = p.steps[i].m
                  /\ phase' = "flatmap"
                  /\ UNCHANGED <<result, kind>>
    /\ UNCHANGED <<val, depth, prevKind>>

\* .flatmap(send) on the yielded container
flatmap ==
    /\ phase = "flatmap"
    /\ IF Bind(yielded)
       THEN /\ val' = IF yielded.tag \in {"Some", "Right", "Left"} THEN Raw(yielded.v) ELSE NoneVal
            /\ depth' = depth + 1
            /\ phase' = "send"
            /\ UNCHANGED <<result, kind>>
       ELSE /\ result' = yielded
            /\ kind' = "short"
            /\ phase' = "return"
            /\ UNCHANGED <<val, depth>>
    /\ UNCHANGED <<it, yielded, executed, prevKind>>

\* a send frame returns what it got to its caller; the outermost to run's
return ==
    /\ phase = "return"
    /\ depth' = depth - 1
    /\ phase' = IF depth = 1 THEN "done" ELSE "return"
    /\ UNCHANGED <<it, val, yielded, result, kind, executed, prevKind>>

----------------------------------------------------------------------------
(* dict.py: lookup, getByKeys *)

\* Maybe.of(x): Nothing for None, Some(x) otherwise
MaybeOf(x) == IF x = NoneVal THEN Nothing ELSE Some(x)

\* m.maybe(default, f), f a function of the payload
maybe(m, default, f) == IF m.tag = "Nothing" THEN default ELSE f[m.v]

\* Either.sequence(es): the first Left of es, else Right of the payloads
RECURSIVE sequence(_)
sequence(es) ==
    IF es = <<>> THEN Right(<<>>)
    ELSE IF es[1].tag = "Left" THEN es[1]
    ELSE LET r == sequence(Tail(es))
         IN IF r.tag = "Left" THEN r ELSE Right(<<es[1].v>> \o r.v)

\* dict(pairs): a later pair replaces an earlier one with the same key
dict(pairs) ==
    [k \in {pairs[i][1] : i \in DOMAIN pairs} |->
        LET last == CHOOSE i \in DOMAIN pairs :
                        /\ pairs[i][1] = k
                        /\ \A j \in DOMAIN pairs : pairs[j][1] = k => j <= i
        IN pairs[last][2]]

\* d.get(k, None)
DictGet(d, k) == IF k \in DOMAIN d THEN d[k] ELSE NoneVal

lookup(k, d) == MaybeOf(DictGet(d, k))

GkPair(k, v) == Right(<<k, v>>)

GkKeys == {"a", "b", "c"}

GkValues == {Raw(1), Raw(2), NoneVal}

\* lookup(k, d).maybe(Either.Left(k), lambda v: Either.Right((k, v)))
get(k, d) == maybe(lookup(k, d), Left(k), [v \in GkValues |-> GkPair(k, v)])

\* e.map(dict)
MapDict(e) == IF e.tag = "Right" THEN Right(dict(e.v)) ELSE e

getByKeys(ks, d) == MapDict(sequence([i \in DOMAIN ks |-> get(ks[i], d)]))

\* the iteration orders of the subsets of GkKeys
GkKeySets ==
    UNION {{s \in [1..n -> GkKeys] : \A i, j \in 1..n : i # j => s[i] # s[j]}
             : n \in 0..Cardinality(GkKeys)}

GkDicts == UNION {[S -> GkValues] : S \in SUBSET GkKeys}

GkCall ==
    /\ ~gkDone
    /\ gkRes' = getByKeys(gkKs, gkD)
    /\ gkDone' = TRUE
    /\ UNCHANGED <<gkKs, gkD>>

InitGetByKeys ==
    /\ gkKs \in GkKeySets
    /\ gkD \in GkDicts
    /\ gkRes = NoneVal
    /\ gkDone = FALSE
    /\ DoIdle /\ ApIdle /\ UfIdle /\ OaIdle /\ CrIdle

NextGetByKeys == GkCall /\ UNCHANGED <<doVars, apVars, ufVars, oaVars, crVars>>

SpecGetByKeys == InitGetByKeys /\ [][NextGetByKeys]_vars

GkMissing == {i \in DOMAIN gkKs : gkKs[i] \notin DOMAIN gkD}

GkFirstMissing == CHOOSE i \in GkMissing : \A j \in GkMissing : i <= j

\* C6: getByKeys returns Left of the first key of ks, in iteration order,
\* that is not a key of d, and Right of d restricted to ks when there is
\* none, for every value stored in d.
C6_GetByKeys ==
    gkDone =>
        IF GkMissing # {}
        THEN gkRes.tag = "Left" /\ gkRes.v = gkKs[GkFirstMissing]
        ELSE /\ gkRes.tag = "Right"
             /\ DOMAIN gkRes.v = {gkKs[i] : i \in DOMAIN gkKs}
             /\ \A k \in DOMAIN gkRes.v : gkRes.v[k] = gkD[k]

----------------------------------------------------------------------------
(* dict.py: append *)

MaxNodes == 4

Leaf(x) == [t |-> "leaf", v |-> x]
Dict(d) == [t |-> "dict", d |-> d]

\* isinstance(v, dict)
IsDict(v) == v.t = "dict"

EarlierWins(d1, d2, d3) ==
    [k \in DOMAIN d1 \cup DOMAIN d2 \cup DOMAIN d3 |->
        IF k \in DOMAIN d1 THEN d1[k]
        ELSE IF k \in DOMAIN d2 THEN d2[k]
        ELSE d3[k]]

\* {**d1, **d2, **d3}
Unpack3(d1, d2, d3) ==
    [k \in DOMAIN d1 \cup DOMAIN d2 \cup DOMAIN d3 |->
        IF k \in DOMAIN d3 THEN d3[k]
        ELSE IF k \in DOMAIN d2 THEN d2[k]
        ELSE d1[k]]

RECURSIVE append(_, _)
append(d1, d2) ==
    LET both == {k \in DOMAIN d1 : k \in DOMAIN d2 /\ IsDict(d1[k]) /\ IsDict(d2[k])}
        d3 == [k \in both |-> Dict(append(d1[k].d, d2[k].d))]
    IN Unpack3(d1, d2, d3)

ApKeys == {"a", "b"}

\* the values / the nested dicts over ApKeys with at most n values in all
\* (leaves and sub-dicts), every leaf being x
RECURSIVE ApValues(_, _), ApDicts(_, _)
ApValues(n, x) ==
    IF n < 1 THEN {} ELSE {Leaf(x)} \cup {Dict(d) : d \in ApDicts(n - 1, x)}

ApDicts(n, x) ==
    {<<>>}
      \cup {k :> v : k \in ApKeys, v \in ApValues(n, x)}
      \cup UNION {{("a" :> v1) @@ ("b" :> v2) : v1 \in ApValues(i, x), v2 \in ApValues(n - i, x)}
                   : i \in 1..(n - 1)}

ApCall ==
    /\ ~apDone
    /\ apRes' = append(apD1, apD2)
    /\ apDone' = TRUE
    /\ UNCHANGED <<apD1, apD2>>

InitAppend ==
    /\ apD1 \in ApDicts(MaxNodes, 1)
    /\ apD2 \in ApDicts(MaxNodes, 2)
    /\ apRes = <<>>
    /\ apDone = FALSE
    /\ DoIdle /\ GkIdle /\ UfIdle /\ OaIdle /\ CrIdle

NextAppend == ApCall /\ UNCHANGED <<doVars, gkVars, ufVars, oaVars, crVars>>

SpecAppend == InitAppend /\ [][NextAppend]_vars

\* r is the deep merge of d1 and d2, at every level
RECURSIVE IsDeepMerge(_, _, _)
IsDeepMerge(r, d1, d2) ==
    /\ DOMAIN r = DOMAIN d1 \cup DOMAIN d2
    /\ \A k \in DOMAIN r :
          IF k \in DOMAIN d1 /\ k \in DOMAIN d2 /\ IsDict(d1[k]) /\ IsDict(d2[k])
          THEN IsDict(r[k]) /\ IsDeepMerge(r[k].d, d1[k].d, d2[k].d)
          ELSE IF k \in DOMAIN d2 THEN r[k] = d2[k]
          ELSE r[k] = d1[k]

\* C7: append(d1, d2) has the keys of d1 and of d2; a key whose two values
\* are dicts holds their append, another key of d2 holds d2's value, a key
\* of d1 alone holds d1's value.
C7_Append == apDone => IsDeepMerge(apRes, apD1, apD2)

C7_Witness ==
    /\ apDone
    /\ "a" \in DOMAIN apD1 /\ "a" \in DOMAIN apD2
    /\ IsDict(apD1["a"]) /\ IsDict(apD2["a"])
    /\ DOMAIN apD1["a"].d = {"a", "b"} /\ DOMAIN apD2["a"].d = {"b"}
    /\ apRes["a"] = Dict([k \in {"a", "b"} |-> IF k = "a" THEN Leaf(1) ELSE Leaf(2)])
    /\ "b" \in DOMAIN apD1 /\ "b" \in DOMAIN apD2
    /\ IsDict(apD1["b"]) /\ ~IsDict(apD2["b"])
    /\ apRes["b"] = Leaf(2)

----------------------------------------------------------------------------
(* dict.py: unflatten *)

MaxKeyLen == 3
MaxItems == 2

\* a str is the sequence of its characters
UfChars == {"a", "."}
UfSeps == {".", "a"}
UfValues == {1, 2}

\* k.split(sep), for a separator of one character
RECURSIVE split(_, _)
split(s, sep) ==
    IF \A i \in DOMAIN s : s[i] # sep THEN <<s>>
    ELSE LET i == CHOOSE i \in DOMAIN s : s[i] = sep /\ \A j \in 1..(i - 1) : s[j] # sep
         IN <<SubSeq(s, 1, i - 1)>> \o split(SubSeq(s, i + 1, Len(s)), sep)

RECURSIVE unflatten1(_, _)
unflatten1(parts, value) ==
    LET h == Head(parts)
        t == Tail(parts)
    IN IF Len(t) = 0 THEN (h :> Leaf(value))
       ELSE (h :> Dict(unflatten1(t, value)))

ReduceSwapped(acc, x) == append(x, acc)

\* one step of reduce(append, ..., {}): acc = append(acc, x)
ReduceStep(acc, x) == append(acc, x)

UfKeys == UNION {[1..n -> UfChars] : n \in 0..MaxKeyLen}

UfItems ==
    UNION {{s \in [1..n -> [k : UfKeys, v : UfValues]] :
               \A i, j \in 1..n : i # j => s[i].k # s[j].k}
             : n \in 0..MaxItems}

\* reduce takes the next item of d.items()
UfReduce ==
    /\ ufIdx < Len(ufD)
    /\ ufIdx' = ufIdx + 1
    /\ ufAcc' = ReduceStep(ufAcc, unflatten1(split(ufD[ufIdx + 1].k, ufSep), ufD[ufIdx + 1].v))
    /\ UNCHANGED <<ufD, ufSep>>

InitUnflatten ==
    /\ ufD \in UfItems
    /\ ufSep \in UfSeps
    /\ ufIdx = 0
    /\ ufAcc = <<>>
    /\ DoIdle /\ GkIdle /\ ApIdle /\ OaIdle /\ CrIdle

NextUnflatten == UfReduce /\ UNCHANGED <<doVars, gkVars, apVars, oaVars, crVars>>

SpecUnflatten == InitUnflatten /\ [][NextUnflatten]_vars

UfPath(i) == split(ufD[i].k, ufSep)

IsPrefix(p, q) == Len(p) <= Len(q) /\ SubSeq(q, 1, Len(p)) = p

\* items i and j meet at the same path: one's path runs through the other's
UfMeet(i, j) == IsPrefix(UfPath(i), UfPath(j)) \/ IsPrefix(UfPath(j), UfPath(i))

\* the items among the first n that no later one of them meets
UfSurvivors(n) ==
    {<<UfPath(i), ufD[i].v>> : i \in {i \in 1..n : \A j \in (i + 1)..n : ~UfMeet(i, j)}}

\* the nested dict holding exactly the leaves S (a set of <<path, value>>)
RECURSIVE TreeOf(_)
TreeOf(S) ==
    [h \in {e[1][1] : e \in S} |->
        LET here == {e \in S : e[1][1] = h}
        IN IF \E e \in here : Len(e[1]) = 1
           THEN Leaf((CHOOSE e \in here : Len(e[1]) = 1)[2])
           ELSE Dict(TreeOf({<<Tail(e[1]), e[2]>> : e \in here}))]

\* C8: after any number of items, the accumulator of the fold holds, at the
\* path its key splits into, the value of every item that no later item
\* met, and nothing else: a key without sep is a top-level leaf, and where
\* two items meet the later one wins.
C8_Unflatten == ufAcc = TreeOf(UfSurvivors(ufIdx))

C8_Witness ==
    /\ ufSep = "."
    /\ Len(ufD) = 2
    /\ ufIdx = 2
    /\ ufD[1].k = <<"a", ".", "a">> /\ ufD[1].v = 1
    /\ ufD[2].k = <<"a">> /\ ufD[2].v = 2
    /\ ufAcc = (<<"a">> :> Leaf(2))

InitDo == DoIdle /\ GkIdle /\ ApIdle /\ UfIdle /\ OaIdle /\ CrIdle

NextDo ==
    /\ \/ \E p \in Programs : run(p)
       \/ send
       \/ flatmap
       \/ return
    /\ UNCHANGED <<gkVars, apVars, ufVars, oaVars, crVars>>

SpecDo == InitDo /\ [][NextDo]_vars

----------------------------------------------------------------------------
(* Properties of do.py *)

Prog == it.prog
Steps == it.prog.steps

IsYield(i) == i \in 1..Len(Steps) /\ Steps[i].op = "yield"
IsMReturn(i) == i \in 1..Len(Steps) /\ Steps[i].op = "mreturn"
IsShortYield(i) == IsYield(i) /\ IsShort(Steps[i].m)

\* the payloads of the first n yielded containers of the program
YieldPayloads(n) == [j \in 1..n |-> Steps[j].m.v]

\* the meaning of the program as nested binds, from step i on
RECURSIVE EvalFrom(_, _, _)
EvalFrom(p, i, rec) ==
    IF i > Len(p.steps) THEN RetValue(p, rec)
    ELSE IF p.steps[i].op = "mreturn" THEN unit(p.M, Built(rec))
    ELSE IF IsShort(p.steps[i].m) THEN p.steps[i].m
    ELSE EvalFrom(p, i + 1, Append(rec, p.steps[i].m.v))

\* what a call of do(M)(f) means: the nested binds of a generator function;
\* for a plain function, the exception that leaves run
Meaning(p) ==
    IF IsGenerator(p) THEN EvalFrom(p, 1, <<>>)
    ELSE IF Len(p.steps) >= 1 THEN Raised("ReturnMonadic")
    ELSE Raised("AttributeError")

\* the index of the last step the nested binds evaluate
RECURSIVE LastFrom(_, _)
LastFrom(p, i) ==
    IF i > Len(p.steps) THEN i
    ELSE IF p.steps[i].op = "mreturn" THEN i
    ELSE IF IsShort(p.steps[i].m) THEN i
    ELSE LastFrom(p, i + 1)

\* C1: once a yielded container is Nothing / Left, the program is never
\* resumed (that yield stays the last executed step, whatever its position)
\* and the call returns that same container.
C1_ShortCircuit ==
    \A k \in 1..Len(executed) :
        IsShortYield(executed[k]) =>
            /\ k = Len(executed)
            /\ it.pc = executed[k]
            /\ phase \in {"flatmap", "return", "done"}
            /\ phase \in {"return", "done"} => result = Steps[executed[k]].m

C1_Witness ==
    /\ phase = "done"
    /\ Len(Steps) = 3
    /\ it.pc = 2
    /\ IsShortYield(2)
    /\ result = Left(2)

\* the early return of a generator function: no later step is executed, the
\* call returns M.unit(v), and ReturnMonadic does not reach the caller
EarlyReturnInGenerator ==
    \A k \in 1..Len(executed) :
        (IsGenerator(Prog) /\ IsMReturn(executed[k])) =>
            /\ k = Len(executed)
            /\ it.pc = executed[k]
            /\ phase \in {"return", "done"}
            /\ result = unit(Prog.M, Sum(YieldPayloads(executed[k] - 1)))

\* C2: a call of mreturn(v) after zero or more successful yields ends the
\* run: no later step is executed, the call returns M.unit(v), and
\* ReturnMonadic does not reach the caller.
C2_EarlyReturn ==
    \A k \in 1..Len(executed) :
        IsMReturn(executed[k]) =>
            /\ k = Len(executed)
            /\ it.pc = executed[k]
            /\ phase \in {"return", "done"}
            /\ result.tag # "Raise"
            /\ \A j \in 1..(executed[k] - 1) : IsYield(j) /\ ~IsShort(Steps[j].m)
            /\ result = unit(Prog.M, Sum(YieldPayloads(executed[k] - 1)))

RanToCompletion == phase \in {"return", "done"} /\ it.pc = Len(Steps) + 1

\* C3 (as stated): a program that runs to completion returns the last
\* container it yielded.
C3_ReturnsLastYielded ==
    (RanToCompletion /\ Len(Steps) >= 1) => result = Steps[Len(Steps)].m

\* C3 (amended): a program that runs to completion after one or more
\* successful yields returns the value of its own return statement,
\* unchanged: None when it has none, a container only when it returns one.
C3_ReturnsProgramValue ==
    (RanToCompletion /\ Len(Steps) >= 1) =>
        /\ \A j \in 1..Len(Steps) : IsYield(j) /\ ~IsShort(Steps[j].m)
        /\ Prog.ret = "none" => result = NoneVal
        /\ Prog.ret = "raw" => result = Raw(Sum(YieldPayloads(Len(Steps))))
        /\ Prog.ret = "unit" => result = unit(Prog.M, Sum(YieldPayloads(Len(Steps))))

C3_Witness ==
    /\ phase = "done"
    /\ RanToCompletion
    /\ Len(Steps) = 2
    /\ Prog.ret = "none"
    /\ result = NoneVal

\* C4: the steps run in program order, each once; every resumption after
\* the first hands the program the payload of the container yielded just
\* before; the frames are all gone when the call returns.
C4_OrderAndPayload ==
    /\ executed = [k \in 1..it.pc |-> k]
    /\ it.pc <= Len(Steps) + 1
    /\ Len(it.received) = (IF it.pc = 0 THEN 0 ELSE it.pc - 1)
    /\ \A k \in 1..Len(it.received) :
          IsYield(k) /\ ~IsShort(Steps[k].m) /\ it.received[k] = Steps[k].m.v
    /\ (phase = "send" /\ IsGenerator(Prog)) =>
          (depth = it.pc + 1 /\ (it.pc = 0 <=> val = NoneVal))
    /\ phase \in {"idle", "done"} => depth = 0

C4_Witness ==
    /\ phase = "done"
    /\ Prog.M = "Maybe"
    /\ it.received = <<1, 2, 1>>

\* C5: whatever the earlier calls did, a call runs the program from its
\* first step and returns what the program means for this call's arguments.
C5_FreshRun ==
    /\ (phase = "send" /\ depth = 1) =>
          (it.received = <<>> /\ it.pc = (IF IsGenerator(Prog) THEN 0 ELSE 1))
    /\ phase = "done" =>
          /\ result = Meaning(Prog)
          /\ executed = [k \in 1..LastFrom(Prog, 1) |-> k]

C5_Witness ==
    /\ phase = "done"
    /\ prevKind = "short"
    /\ kind = "complete"
    /\ Len(Steps) = 2

----------------------------------------------------------------------------
(* oauth/oauth_client.py *)

MaxUrlLen == 1

\* a str is the sequence of its characters
UrlChars == {"x", ":", "%"}

Urls == UNION {[1..n -> UrlChars] : n \in 1..MaxUrlLen}

\* url_for('oauth2.callback', _external=True)
CallbackUrl == <<"k">>

\* parse.quote(s): letters, digits and "_.-~/" stay, another character
\* becomes % and the two hex digits of its code
QuoteChar(c) ==
    CASE c = ":" -> <<"%", "3", "A">>
      [] c = "%" -> <<"%", "2", "5">>
      [] OTHER -> <<c>>

RECURSIVE quote(_)
quote(s) == IF s = <<>> THEN <<>> ELSE QuoteChar(Head(s)) \o quote(Tail(s))

HexDigits == {"2", "3", "5", "A"}

\* the character with hex code hi lo ("?" is U+FFFD, for a byte that is no
\* character on its own)
HexChar(hi, lo) ==
    CASE hi = "2" /\ lo = "2" -> "\""
      [] hi = "2" /\ lo = "3" -> "#"
      [] hi = "2" /\ lo = "5" -> "%"
      [] hi = "2" /\ lo = "A" -> "*"
      [] hi = "3" /\ lo = "2" -> "2"
      [] hi = "3" /\ lo = "3" -> "3"
      [] hi = "3" /\ lo = "5" -> "5"
      [] hi = "3" /\ lo = "A" -> ":"
      [] hi = "5" /\ lo = "2" -> "R"
      [] hi = "5" /\ lo = "3" -> "S"
      [] hi = "5" /\ lo = "5" -> "U"
      [] hi = "5" /\ lo = "A" -> "Z"
      [] OTHER -> "?"

\* parse.unquote(s): % and two hex digits become the character they code
RECURSIVE unquote(_)
unquote(s) ==
    IF s = <<>> THEN <<>>
    ELSE IF s[1] = "%" /\ Len(s) >= 3 /\ s[2] \in HexDigits /\ s[3] \in HexDigits
    THEN <<HexChar(s[2], s[3])>> \o unquote(SubSeq(s, 4, Len(s)))
    ELSE <<s[1]>> \o unquote(Tail(s))

\* the 'state' query parameter of a callback request: missing, a URL, or a
\* quoted URL
CallbackStates == {Absent} \cup {Present(u) : u \in Urls \cup {quote(u) : u \in Urls}}

Tokens == {"t1", "t2"}

\* the access-token response: not ok, ok with a body that is no JSON, ok
\* with JSON that lacks a token, or ok with both tokens
TokenResponses ==
    {[token |-> r] : r \in {"notok", "nojson", "nokey"}}
      \cup {[token |-> "ok", access |-> t] : t \in Tokens}

\* the check_token response: a user record, an empty JSON object, or no JSON
CheckResponses == {"user", "empty", "nojson"}

\* `not session.get('user')` is false
HasUser(sess) == sess.user.has /\ sess.user.v # "empty"

\* force_authorize(), the before_request hook, for a request to url
force_authorize(sess, url) ==
    IF ~HasUser(sess) /\ url # CallbackUrl
    THEN [sess EXCEPT !.redirect_state = Present(quote(url))]
    ELSE sess

\* session.pop(REDIRECT_STATE, None)
PopState(sess) == [sess EXCEPT !.redirect_state = Absent]

\* the check of callback(): stored_state and unquote(stored_state) == callback_state
StateMatches(stored, cs) ==
    /\ stored.has
    /\ stored.v # <<>>
    /\ cs.has
    /\ unquote(stored.v) = cs.v

\* a request for another URL than the callback's; it may be handled while
\* a callback waits for the OAuth server
OtherRequest(url) ==
    /\ session' = force_authorize(session, url)
    /\ req' = [handler |-> "other", url |-> url]
    /\ validated' = IF ~HasUser(session) THEN 0 ELSE validated
    /\ UNCHANGED cbs
    /\ UNCHANGED <<doVars, gkVars, apVars, ufVars, crVars>>

\* A request for the callback URL is handled in the steps below. Between
\* two of them the same session may be used by other requests: the handler
\* waits for the OAuth server twice, and its statements are not one atomic
\* step for the requests handled beside it.

\* force_authorize() (nothing to do for the callback URL), then the state
\* check of callback()
callback(i, cs) ==
    /\ cbs[i].pc = "idle"
    /\ LET s0 == force_authorize(session, CallbackUrl)
           stored == s0.redirect_state
           passed == StateMatches(stored, cs)
       IN /\ session' = s0
          /\ cbs' = [cbs EXCEPT ![i] =
                       IF passed THEN [pc |-> "pop", state |-> cs, stored |-> stored]
                       ELSE IdleRequest]
          /\ req' = [handler |-> "callback", step |-> "check", slot |-> i, state |-> cs,
                     stored |-> stored, passed |-> passed, token |-> "none"]
          /\ validated' = IF passed /\ validated < 2 THEN validated + 1 ELSE validated
    /\ UNCHANGED <<doVars, gkVars, apVars, ufVars, crVars>>

\* session.pop(REDIRECT_STATE, None); the access-token request is sent
callbackPop(i) ==
    /\ cbs[i].pc = "pop"
    /\ session' = PopState(session)
    /\ cbs' = [cbs EXCEPT ![i].pc = "post"]
    /\ req' = [handler |-> "callback", step |-> "pop", slot |-> i, state |-> cbs[i].state,
               stored |-> cbs[i].stored, passed |-> TRUE, token |-> "none"]
    /\ UNCHANGED validated
    /\ UNCHANGED <<doVars, gkVars, apVars, ufVars, crVars>>

\* the access-token response arrives: raise, or store the tokens and send
\* the check_token request
callbackToken(i, tr) ==
    /\ cbs[i].pc = "post"
    /\ IF tr.token = "ok"
       THEN /\ session' = [session EXCEPT !.auth_tokens = Present(<<tr.access, "refresh">>)]
            /\ cbs' = [cbs EXCEPT ![i].pc = "check"]
       ELSE /\ UNCHANGED session
            /\ cbs' = [cbs EXCEPT ![i] = IdleRequest]
    /\ req' = [handler |-> "callback", step |-> "token", slot |-> i, state |-> cbs[i].state,
               stored |-> cbs[i].stored, passed |-> TRUE, token |-> tr.token]
    /\ UNCHANGED validated
    /\ UNCHANGED <<doVars, gkVars, apVars, ufVars, crVars>>

\* the check_token response arrives: session['user'] = token_request.json()
callbackUser(i, chk) ==
    /\ cbs[i].pc = "check"
    /\ session' = IF chk = "nojson" THEN session ELSE [session EXCEPT !.user = Present(chk)]
    /\ cbs' = [cbs EXCEPT ![i] = IdleRequest]
    /\ req' = [handler |-> "callback", step |-> "user", slot |-> i, state |-> cbs[i].state,
               stored |-> cbs[i].stored, passed |-> TRUE, token |-> "ok"]
    /\ UNCHANGED validated
    /\ UNCHANGED <<doVars, gkVars, apVars, ufVars, crVars>>

InitOAuth == OaIdle /\ DoIdle /\ GkIdle /\ ApIdle /\ UfIdle /\ CrIdle

NextOAuth ==
    \/ \E url \in Urls : OtherRequest(url)
    \/ \E i \in 1..MaxInFlight, cs \in CallbackStates : callback(i, cs)
    \/ \E i \in 1..MaxInFlight : callbackPop(i)
    \/ \E i \in 1..MaxInFlight, tr \in TokenResponses : callbackToken(i, tr)
    \/ \E i \in 1..MaxInFlight, chk \in CheckResponses : callbackUser(i, chk)

SpecOAuth == InitOAuth /\ [][NextOAuth]_vars

\* a step changes session['auth_tokens'] or session['user'] only if it is
\* taken by a callback whose state parameter was the unquoted redirect state
\* it read from the session and whose access-token response was ok
WritesOnlyAfterValidation ==
    (session'.auth_tokens # session.auth_tokens \/ session'.user # session.user) =>
        /\ req'.handler = "callback"
        /\ req'.stored.has
        /\ req'.state.has
        /\ req'.state.v = unquote(req'.stored.v)
        /\ req'.token = "ok"

WritesGuarded == [][WritesOnlyAfterValidation]_vars

C9_Step ==
    /\ WritesOnlyAfterValidation
    /\ (req'.handler = "callback" /\ req'.step = "pop") => ~session'.redirect_state.has
    /\ validated' <= 1

\* C9: a request changes session['auth_tokens'] or session['user'] only if
\* it is a callback whose state parameter is the unquoted stored redirect
\* state and whose access-token response was ok; a callback whose state
\* matches removes the redirect state from the session, also when its token
\* exchange fails; and no stored state passes the check of two callbacks.
C9_StateGuardsLogin == [][C9_Step]_vars

----------------------------------------------------------------------------
(* oauth/oauth_credentials.py *)

CrUrls == {"url1", "url2"}

\* a token response: response.ok and its body, which is JSON with an
\* access_token ("t1", "t2"), JSON without one ("error") or no JSON ("html")
CrResponses == [ok : BOOLEAN, body : Tokens \cup {"error", "html"}]

\* AUTH_RESOURCE_SERVER in app.config and "access_token" in app.config[AUTH_RESOURCE_SERVER]
HasToken(cfg) == cfg.has /\ cfg.v.access_token.has

\* app.config[AUTH_RESOURCE_SERVER] = dict(oauth2_token_url=..., ...), and
\* req_session.post(...) is sent by call i
CrRequest(i, url) ==
    /\ config' = Present([oauth2_token_url |-> url, access_token |-> Absent])
    /\ calls' = [calls EXCEPT ![i] = [pc |-> "post", url |-> url]]
    /\ lastSent' = [slot |-> i, status |-> "pending"]
    /\ outcome' = "waiting"

\* obtain_client_credentials_token up to req_session.post
obtain_client_credentials_token(i, url, force) ==
    /\ calls[i].pc = "idle"
    /\ IF ~force /\ HasToken(config)
       THEN /\ call' = [op |-> "obtain", step |-> "begin", slot |-> i, force |-> force,
                        sent |-> FALSE, before |-> config]
            /\ outcome' = "returned"
            /\ UNCHANGED <<config, calls, lastSent>>
       ELSE /\ call' = [op |-> "obtain", step |-> "begin", slot |-> i, force |-> force,
                        sent |-> TRUE, before |-> config]
            /\ CrRequest(i, url)
    /\ UNCHANGED <<doVars, gkVars, apVars, ufVars, oaVars>>

\* refresh_client_credentials_token up to req_session.post
refresh_client_credentials_token(i) ==
    /\ calls[i].pc = "idle"
    /\ IF ~config.has
       THEN \* config = app.config[AUTH_RESOURCE_SERVER]
            /\ call' = [op |-> "refresh", step |-> "begin", slot |-> i, force |-> TRUE,
                        sent |-> FALSE, before |-> config]
            /\ outcome' = "KeyError"
            /\ UNCHANGED <<config, calls, lastSent>>
       ELSE /\ call' = [op |-> "refresh", step |-> "begin", slot |-> i, force |-> TRUE,
                        sent |-> TRUE, before |-> config]
            /\ CrRequest(i, config.v.oauth2_token_url)
    /\ UNCHANGED <<doVars, gkVars, apVars, ufVars, oaVars>>

\* the token response of call i arrives: raise, or store the token in the
\* dict app.config[AUTH_RESOURCE_SERVER] holds by now
CrResponse(i, resp) ==
    /\ calls[i].pc = "post"
    /\ calls' = [calls EXCEPT ![i] = IdleCall]
    /\ call' = [op |-> "response", step |-> "response", slot |-> i, resp |-> resp]
    /\ lastSent' = IF lastSent.slot = i
                   THEN [lastSent EXCEPT !.status = IF resp.ok THEN "ok" ELSE "notok"]
                   ELSE lastSent
    /\ IF ~resp.ok
       THEN \* raise Unauthorized(description=f"... {response.json()}")
            /\ outcome' = IF resp.body = "html" THEN "ValueError" ELSE "Unauthorized"
            /\ UNCHANGED config
       ELSE IF resp.body = "html"
       THEN outcome' = "ValueError" /\ UNCHANGED config
       ELSE IF resp.body = "error"
       THEN outcome' = "KeyError" /\ UNCHANGED config
       ELSE /\ config' = [config EXCEPT !.v.access_token = Present(resp.body)]
            /\ outcome' = "returned"
    /\ UNCHANGED <<doVars, gkVars, apVars, ufVars, oaVars>>

add_client_credentials_token_header ==
    /\ call' = [op |-> "header", step |-> "header",
                header |-> IF HasToken(config) THEN config.v.access_token ELSE Absent]
    /\ outcome' = "returned"
    /\ UNCHANGED <<config, calls, lastSent>>
    /\ UNCHANGED <<doVars, gkVars, apVars, ufVars, oaVars>>

InitCredentials == CrIdle /\ DoIdle /\ GkIdle /\ ApIdle /\ UfIdle /\ OaIdle

NextCredentials ==
    \/ \E i \in 1..MaxCalls, url \in CrUrls, force \in BOOLEAN :
          obtain_client_credentials_token(i, url, force)
    \/ \E i \in 1..MaxCalls : refresh_client_credentials_token(i)
    \/ \E i \in 1..MaxCalls, resp \in CrResponses : CrResponse(i, resp)
    \/ add_client_credentials_token_header

SpecCredentials == InitCredentials /\ [][NextCredentials]_vars

\* a call without force on a stored token sends nothing and changes nothing
NoRequestOnStoredToken ==
    (call.op = "obtain" /\ ~call.force /\ HasToken(call.before)) =>
        (~call.sent /\ config = call.before /\ outcome = "returned")

\* C10: the config holds an access_token only if the token request sent
\* last was ok; a call without force on a stored token sends no request and
\* leaves the config as it was; a call whose token request is not ok raises
\* Unauthorized and leaves the config without an access_token.
C10_TokenOnlyFromOkRequest ==
    /\ HasToken(config) => lastSent.status = "ok"
    /\ NoRequestOnStoredToken
    /\ (call.step = "response" /\ ~call.resp.ok) =>
          (outcome = "Unauthorized" /\ ~HasToken(config))

====
